---- MODULE Spec2Model ----
(***************************************************************************)
(* Model of the stock matcher: two price-time ordered pools of bids        *)
(* (src/src/pool.rs), the key ordering (src/src/key.rs), the matching      *)
(* range (src/src/range.rs) and the order book that routes a bid to the    *)
(* opposite pool and rests the remainder (src/src/order_book.rs).          *)
(***************************************************************************)
EXTENDS Integers, Sequences, FiniteSets, TLC

\* ---------------------------------------------------------------- bounds
\* Amounts are u64 in the source; the model keeps the width but scales it:
\* amounts range over 0..MaxAmount and MaxAmount stands for u64::MAX.
MaxAmount == 3
\* Prices range over 0..MaxPrice, user ids over 0..MaxUser.
MaxPrice == 1
MaxUser == 1
\* Cap on the per-pool insertion counter (Pool.1).
MaxSeq == 2
\* Cap on the number of submissions followed by the ledger specification.
MaxSteps == 3

\* usize::max_value(), the id of the sentinel key of a matching range.  The
\* counter of a pool stays below it (it is capped by MaxSeq).
UsizeMax == 1000000

Amounts == 0..MaxAmount
Prices == 0..MaxPrice
Users == 0..MaxUser

\* ---------------------------------------------------------------- bids
Sides == {"Sell", "Buy"}
Types == {"Limit", "FillOrKill", "ImmediateOrCancel"}

Opposite(kind) == IF kind = "Sell" THEN "Buy" ELSE "Sell"

Bid(price, amount, user_id) ==
  [price |-> price, amount |-> amount, user_id |-> user_id]

\* ---------------------------------------------------------------- keys
PoolKey(id, price) == [id |-> id, price |-> price]

\* Ordering::reverse
reverse(o) == 0 - o

\* u64::cmp / usize::cmp: -1 is Less, 0 is Equal, 1 is Greater
int_cmp(a, b) == IF a < b THEN 0 - 1 ELSE IF a > b THEN 1 ELSE 0

\* Ordering::then_with
then_with(o, p) == IF o # 0 THEN o ELSE p

cmp_no_reverse(kind, a, b) ==
  then_with(int_cmp(a.price, b.price), int_cmp(a.id, b.id))

\* cmp with the ids compared the wrong way round
cmp_newest_first(kind, a, b) ==
  IF kind = "Buy"
    THEN then_with(reverse(int_cmp(a.price, b.price)), int_cmp(b.id, a.id))
    ELSE then_with(int_cmp(a.price, b.price), int_cmp(b.id, a.id))

\* Ord for PoolKey<BuyingBid> and for PoolKey<SellingBid>
cmp(kind, a, b) ==
  IF kind = "Buy"
    THEN then_with(reverse(int_cmp(a.price, b.price)), int_cmp(a.id, b.id))
    ELSE then_with(int_cmp(a.price, b.price), int_cmp(a.id, b.id))

\* ---------------------------------------------------------------- BTreeMap
\* A map is the sequence of its entries in key order.  An entry is
\* [key, bid, ty]; ty is a history field (the processing type of the
\* submission the entry comes from), the source does not store it.
Entry(key, bid, ty) == [key |-> key, bid |-> bid, ty |-> ty]

\* BTreeMap::insert: the entry goes after the smaller keys and before the
\* greater ones; an entry with an equal key is replaced.
insert(kind, map, e) ==
  SelectSeq(map, LAMBDA x : cmp(kind, x.key, e.key) < 0)
    \o <<e>>
    \o SelectSeq(map, LAMBDA x : cmp(kind, x.key, e.key) > 0)

\* BTreeMap::remove
\* remove that takes every bid of the key's price out of the map
remove_by_price(map, key) == SelectSeq(map, LAMBDA x : x.key.price # key.price)

remove(map, key) == SelectSeq(map, LAMBDA x : x.key # key)

\* BTreeMap::range_mut(..end): the entries whose key is strictly less than end
range_mut(kind, map, end) ==
  SelectSeq(map, LAMBDA x : cmp(kind, x.key, end) < 0)

\* ---------------------------------------------------------------- Pool
\* Pool(BTreeMap, usize)
Pool(map, count) == [map |-> map, count |-> count]

\* Pool::default
EmptyPool == Pool(<<>>, 0)

\* Pool::push numbering by the size of the map instead of the counter
push_by_len(kind, pool, bid, ty) ==
  LET count == Len(pool.map) + 1
      key == PoolKey(count, bid.price)
  IN Pool(insert(kind, pool.map, Entry(key, bid, ty)), count)

\* Pool::push
push(kind, pool, bid, ty) ==
  LET count == pool.count + 1
      key == PoolKey(count, bid.price)
  IN Pool(insert(kind, pool.map, Entry(key, bid, ty)), count)

\* .zip(0..).map(|(bid, id)| (PoolKey::new(id, bid.price), bid)).collect():
\* the map of the first n bids of data, numbered from 0
RECURSIVE collect(_, _, _)
collect(kind, data, n) ==
  IF n = 0
    THEN <<>>
    ELSE insert(kind, collect(kind, data, n - 1),
                Entry(PoolKey(n - 1, data[n].price), data[n], "Limit"))

\* From<I> for Pool
from(kind, data) ==
  LET map == collect(kind, data, Len(data))
  IN Pool(map, Len(map))

what_matches_exclusive(active_bid) ==
  PoolKey(0, active_bid.price)

\* MatchingRange::what_matches: the (exclusive) end of the range
what_matches(active_bid) ==
  PoolKey(UsizeMax, active_bid.price)

\* scan whose closure leaves `left` alone when a bid has more than is left
RECURSIVE scan_no_zero(_, _)
scan_no_zero(items, left) ==
  IF items = <<>> \/ left = 0
    THEN <<>>
    ELSE LET amount == Head(items).bid.amount
             next_left == IF amount > left THEN left ELSE left - amount
         IN <<Head(items)>> \o scan_no_zero(Tail(items), next_left)

\* the closure given to Iterator::scan in get_suitable
RECURSIVE scan(_, _)
scan(items, left) ==
  IF items = <<>> \/ left = 0
    THEN <<>>
    ELSE LET amount == Head(items).bid.amount
             next_left == IF amount > left THEN 0 ELSE left - amount
         IN <<Head(items)>> \o scan(Tail(items), next_left)

\* the value of `left`, the state of the scan in get_suitable, when the
\* closure has been called on each of the items
RECURSIVE left_after(_, _)
left_after(items, left) ==
  IF items = <<>> \/ left = 0
    THEN left
    ELSE LET amount == Head(items).bid.amount
         IN left_after(Tail(items), IF amount > left THEN 0 ELSE left - amount)

\* get_suitable that yields the first candidate only
get_suitable_first_only(kind, pool, active_bid) ==
  LET got == scan(SelectSeq(range_mut(kind, pool.map, what_matches(active_bid)),
                            LAMBDA e : e.bid.user_id # active_bid.user_id),
                  active_bid.amount)
  IN SubSeq(got, 1, IF got = <<>> THEN 0 ELSE 1)

get_suitable_no_filter(kind, pool, active_bid) ==
  scan(range_mut(kind, pool.map, what_matches(active_bid)), active_bid.amount)

\* get_suitable with the filter applied after the scan: the bids of the
\* active user use up the amount of the walk
get_suitable_filter_last(kind, pool, active_bid) ==
  SelectSeq(scan(range_mut(kind, pool.map, what_matches(active_bid)),
                 active_bid.amount),
            LAMBDA e : e.bid.user_id # active_bid.user_id)

\* Pool::get_suitable; kind is the kind of the pool
get_suitable(kind, pool, active_bid) ==
  LET ranged == range_mut(kind, pool.map, what_matches(active_bid))
      filtered ==
        SelectSeq(ranged, LAMBDA e : e.bid.user_id # active_bid.user_id)
  IN scan(filtered, active_bid.amount)

\* ---------------------------------------------------------------- events
\* The info! lines of pool.rs.  A TRADE line carries the active user, the
\* amount, the user of the pool bid and the price of the pool bid; side is
\* the kind of the active bid (it selects the verb "bought"/"sold").
TradeEvent(side, active_bid, pool_bid, amount) ==
  [type |-> "TRADE", side |-> side, user |-> active_bid.user_id,
   other |-> pool_bid.user_id, amount |-> amount, price |-> pool_bid.price]

DropEvent(side, active_bid) ==
  [type |-> "DROP", side |-> side, user |-> active_bid.user_id,
   other |-> active_bid.user_id, amount |-> active_bid.amount,
   price |-> active_bid.price]

AddEvent(side, bid) ==
  [type |-> "ADD", side |-> side, user |-> bid.user_id,
   other |-> bid.user_id, amount |-> bid.amount, price |-> bid.price]

\* ---------------------------------------------------------------- matching
\* process_item that subtracts without comparing first
process_item_unguarded(acc, e, active_bid, side) ==
  LET current_items == e.bid.amount
  IN [acc EXCEPT
        !.items_left = @ - current_items,
        !.keys_to_drop = Append(@, e.key),
        !.events =
          Append(@, TradeEvent(side, active_bid, e.bid, current_items))]

\* process_item whose else branch forgets items_left = 0
process_item_keeps_left(acc, e, active_bid, side) ==
  LET current_items == e.bid.amount
  IN IF current_items <= acc.items_left
       THEN [acc EXCEPT
               !.items_left = @ - current_items,
               !.keys_to_drop = Append(@, e.key),
               !.events =
                 Append(@, TradeEvent(side, active_bid, e.bid, current_items))]
       ELSE [acc EXCEPT
               !.writes =
                 Append(@, [key |-> e.key,
                            amount |-> current_items - acc.items_left])]

\* process_item with < for <=: a bid that is used up exactly is written
\* back with amount 0 instead of being dropped
process_item_strict(acc, e, active_bid, side) ==
  LET current_items == e.bid.amount
  IN IF current_items < acc.items_left
       THEN [acc EXCEPT
               !.items_left = @ - current_items,
               !.keys_to_drop = Append(@, e.key),
               !.events =
                 Append(@, TradeEvent(side, active_bid, e.bid, current_items))]
       ELSE [acc EXCEPT
               !.writes =
                 Append(@, [key |-> e.key,
                            amount |-> current_items - acc.items_left]),
               !.items_left = 0]

\* The for_each closure of process_items applied to one item.  acc is
\* [items_left, keys_to_drop, events, writes]; writes are the assignments
\* made through the &mut Bid references (key and new amount).
process_item(acc, e, active_bid, side) ==
  LET current_items == e.bid.amount
  IN IF current_items <= acc.items_left
       THEN [acc EXCEPT
               !.items_left = @ - current_items,
               !.keys_to_drop = Append(@, e.key),
               !.events =
                 Append(@, TradeEvent(side, active_bid, e.bid, current_items))]
       ELSE [acc EXCEPT
               !.writes =
                 Append(@, [key |-> e.key,
                            amount |-> current_items - acc.items_left]),
               !.items_left = 0]

RECURSIVE for_each(_, _, _, _)
for_each(items, acc, active_bid, side) ==
  IF items = <<>>
    THEN acc
    ELSE for_each(Tail(items), process_item(acc, Head(items), active_bid, side),
                  active_bid, side)

\* process_items; side is the kind of the active bid
process_items(items, active_bid, side) ==
  LET amount_needed == active_bid.amount
      done == for_each(items,
                       [items_left |-> amount_needed, keys_to_drop |-> <<>>,
                        events |-> <<>>, writes |-> <<>>],
                       active_bid, side)
  IN [keys_to_drop |-> done.keys_to_drop,
      items_processed |-> amount_needed - done.items_left,
      events |-> done.events,
      writes |-> done.writes]

\* the effect on the map of the writes made through the &mut references
apply_writes(map, writes) ==
  [i \in DOMAIN map |->
     IF \E j \in DOMAIN writes : writes[j].key = map[i].key
       THEN LET j == CHOOSE j \in DOMAIN writes : writes[j].key = map[i].key
            IN [map[i] EXCEPT !.bid.amount = writes[j].amount]
       ELSE map[i]]

\* keys_to_drop.into_iter().for_each(|key| { self.0.remove(&key); })
RECURSIVE remove_all(_, _)
remove_all(map, keys) ==
  IF keys = <<>> THEN map ELSE remove_all(remove(map, Head(keys)), Tail(keys))

RECURSIVE sum(_)
sum(items) ==
  IF items = <<>> THEN 0 ELSE Head(items).bid.amount + sum(Tail(items))

\* The result of process_bid: the pool afterwards, the returned Option
\* (some, bid), the events logged, the units of the active bid that were
\* neither matched nor returned (cancelled), and whether the call panicked.
Result(pool, some, bid, events, cancelled, panic) ==
  [pool |-> pool, some |-> some, bid |-> bid, events |-> events,
   cancelled |-> cancelled, panic |-> panic]

\* process_limit returning the whole active bid as the remainder (the
\* subtraction of items_processed forgotten)
process_limit_whole_remainder(kind, pool, active_bid) ==
  LET side == Opposite(kind)
      r == process_items(get_suitable(kind, pool, active_bid), active_bid, side)
      map == remove_all(apply_writes(pool.map, r.writes), r.keys_to_drop)
  IN IF r.items_processed = active_bid.amount
       THEN Result(Pool(map, pool.count), FALSE, active_bid, r.events, 0, FALSE)
       ELSE Result(Pool(map, pool.count), TRUE, active_bid,
                   Append(r.events, AddEvent(side, active_bid)), 0, FALSE)

\* BidProcessingType::Limit branch of process_bid
process_limit(kind, pool, active_bid) ==
  LET side == Opposite(kind)
      r == process_items(get_suitable(kind, pool, active_bid), active_bid, side)
      map == remove_all(apply_writes(pool.map, r.writes), r.keys_to_drop)
      rest == [active_bid EXCEPT !.amount = @ - r.items_processed]
  IN IF r.items_processed = active_bid.amount
       THEN Result(Pool(map, pool.count), FALSE, active_bid, r.events, 0, FALSE)
       ELSE Result(Pool(map, pool.count), TRUE, rest,
                   Append(r.events, AddEvent(side, rest)), 0, FALSE)

\* process_fill_or_kill in a single pass: it matches first and finds the
\* shortfall afterwards
process_fill_or_kill_single_pass(kind, pool, active_bid, checks) ==
  LET side == Opposite(kind)
      r == process_items(get_suitable(kind, pool, active_bid), active_bid, side)
      map == apply_writes(pool.map, r.writes)
  IN IF r.items_processed >= active_bid.amount
       THEN Result(Pool(map, pool.count), FALSE, active_bid, r.events, 0, FALSE)
       ELSE Result(Pool(map, pool.count), FALSE, active_bid,
                   Append(r.events, DropEvent(side, active_bid)),
                   active_bid.amount, FALSE)

\* BidProcessingType::FillOrKill branch of process_bid.  checks tells
\* whether the build has overflow checks and debug assertions (a debug
\* build) or not (a release build, where the u64 sum wraps).
process_fill_or_kill(kind, pool, active_bid, checks) ==
  LET side == Opposite(kind)
      needed_amount == active_bid.amount
      total == sum(get_suitable(kind, pool, active_bid))
      available_amount == total % (MaxAmount + 1)
      r == process_items(get_suitable(kind, pool, active_bid), active_bid, side)
      map == apply_writes(pool.map, r.writes)
  IN IF checks /\ total > MaxAmount
       THEN Result(pool, FALSE, active_bid, <<>>, 0, TRUE)
       ELSE IF available_amount >= needed_amount
         THEN Result(Pool(map, pool.count), FALSE, active_bid, r.events, 0,
                     checks /\ r.items_processed # active_bid.amount)
         ELSE Result(pool, FALSE, active_bid, <<DropEvent(side, active_bid)>>,
                     active_bid.amount, FALSE)

\* process_immediate_or_cancel returning the remainder as Limit does
process_immediate_or_cancel_rests(kind, pool, active_bid) ==
  process_limit(kind, pool, active_bid)

\* process_immediate_or_cancel without the removal of keys_to_drop
process_immediate_or_cancel_keeps(kind, pool, active_bid) ==
  LET side == Opposite(kind)
      r == process_items(get_suitable(kind, pool, active_bid), active_bid, side)
      map == apply_writes(pool.map, r.writes)
      events == IF r.items_processed = 0
                  THEN Append(r.events, DropEvent(side, active_bid))
                  ELSE r.events
  IN Result(Pool(map, pool.count), FALSE, active_bid, events,
            active_bid.amount - r.items_processed, FALSE)

\* process_immediate_or_cancel logging a DROP whenever a remainder is
\* cancelled
process_immediate_or_cancel_drops_remainder(kind, pool, active_bid) ==
  LET side == Opposite(kind)
      r == process_items(get_suitable(kind, pool, active_bid), active_bid, side)
      map == remove_all(apply_writes(pool.map, r.writes), r.keys_to_drop)
      events == IF r.items_processed < active_bid.amount
                  THEN Append(r.events, DropEvent(side, active_bid))
                  ELSE r.events
  IN Result(Pool(map, pool.count), FALSE, active_bid, events,
            active_bid.amount - r.items_processed, FALSE)

\* BidProcessingType::ImmediateOrCancel branch of process_bid
process_immediate_or_cancel(kind, pool, active_bid) ==
  LET side == Opposite(kind)
      r == process_items(get_suitable(kind, pool, active_bid), active_bid, side)
      map == remove_all(apply_writes(pool.map, r.writes), r.keys_to_drop)
      events == IF r.items_processed = 0
                  THEN Append(r.events, DropEvent(side, active_bid))
                  ELSE r.events
  IN Result(Pool(map, pool.count), FALSE, active_bid, events,
            active_bid.amount - r.items_processed, FALSE)

\* process_bid that takes the Limit branch whatever the type
process_bid_as_limit(kind, pool, active_bid, ty, checks) ==
  process_limit(kind, pool, active_bid)

\* Pool::process_bid; kind is the kind of the pool, the active bid is of
\* the opposite kind
process_bid(kind, pool, active_bid, ty, checks) ==
  CASE ty = "Limit" -> process_limit(kind, pool, active_bid)
    [] ty = "FillOrKill" -> process_fill_or_kill(kind, pool, active_bid, checks)
    [] ty = "ImmediateOrCancel" ->
         process_immediate_or_cancel(kind, pool, active_bid)

\* ---------------------------------------------------------------- order book
\* OrderBook { sellers, buyers }
OrderBook(s, b) == [sellers |-> s, buyers |-> b]

\* What one submission makes of an order book: the two pools afterwards,
\* the events logged, the units cancelled, whether the remainder was
\* pushed, and whether the call panicked.
Outcome(s, b, r) ==
  [sellers |-> s, buyers |-> b, events |-> r.events,
   cancelled |-> r.cancelled, rested |-> r.some, panic |-> r.panic]

process_selling_with(book, ty, r) ==
  Outcome(IF r.some THEN push("Sell", book.sellers, r.bid, ty)
                    ELSE book.sellers,
          r.pool, r)

\* OrderBook::process_selling
process_selling(book, bid, ty, checks) ==
  process_selling_with(book, ty,
                       process_bid("Buy", book.buyers, bid, ty, checks))

process_buying_with(book, ty, r) ==
  Outcome(r.pool,
          IF r.some THEN push("Buy", book.buyers, r.bid, ty)
                    ELSE book.buyers,
          r)

\* OrderBook::process_buying
process_buying(book, bid, ty, checks) ==
  process_buying_with(book, ty,
                      process_bid("Sell", book.sellers, bid, ty, checks))

\* the dispatch on raw_bid.side in process_reader
process_raw_bid(book, side, bid, ty, checks) ==
  IF side = "Sell"
    THEN process_selling(book, bid, ty, checks)
    ELSE process_buying(book, bid, ty, checks)

\* ---------------------------------------------------------------- state
VARIABLES
  sellers,   \* OrderBook.sellers
  buyers,    \* OrderBook.buyers
  panicked,  \* the process has aborted in a panic
  ledger,    \* history: units submitted, traded and cancelled, by side and user
  steps      \* history: number of submissions entered in the ledger

vars == <<sellers, buyers, panicked, ledger, steps>>

ZeroLedger ==
  [what \in {"submitted", "traded", "cancelled"} |->
     [side \in Sides |-> [user \in Users |-> 0]]]

\* OrderBook::default, and empty history
Init ==
  /\ sellers = EmptyPool
  /\ buyers = EmptyPool
  /\ panicked = FALSE
  /\ ledger = ZeroLedger
  /\ steps = 0

\* the order book of the current state
Book == OrderBook(sellers, buyers)

\* The build either checks integer overflow and debug assertions (a debug
\* build) or does not (a release build); only the FillOrKill branch has
\* code that depends on it.
Builds(ty) == IF ty = "FillOrKill" THEN BOOLEAN ELSE {FALSE}

\* One submission: the order book becomes what process_raw_bid makes of it.
\* A pool takes at most MaxSeq pushes.
Submit(side, bid, ty, o) ==
  /\ ~panicked
  /\ o.rested =>
       IF side = "Sell" THEN sellers.count < MaxSeq ELSE buyers.count < MaxSeq
  /\ sellers' = o.sellers
  /\ buyers' = o.buyers
  /\ panicked' = o.panic

ProcessSelling ==
  \E price \in Prices, amount \in Amounts, user_id \in Users, ty \in Types :
    \E checks \in Builds(ty) :
      \E o \in {process_selling(Book, Bid(price, amount, user_id), ty, checks)} :
        /\ Submit("Sell", Bid(price, amount, user_id), ty, o)
        /\ UNCHANGED <<ledger, steps>>

ProcessBuying ==
  \E price \in Prices, amount \in Amounts, user_id \in Users, ty \in Types :
    \E checks \in Builds(ty) :
      \E o \in {process_buying(Book, Bid(price, amount, user_id), ty, checks)} :
        /\ Submit("Buy", Bid(price, amount, user_id), ty, o)
        /\ UNCHANGED <<ledger, steps>>

Next == ProcessSelling \/ ProcessBuying

Spec == Init /\ [][Next]_vars

\* ---------------------------------------------------------------- ledger
RECURSIVE traded_by(_, _, _)
\* units of the TRADE events in which user is the active (taker = TRUE) or
\* the passive (taker = FALSE) party
traded_by(events, user, taker) ==
  IF events = <<>>
    THEN 0
    ELSE LET e == Head(events)
             mine == /\ e.type = "TRADE"
                     /\ IF taker THEN e.user = user ELSE e.other = user
         IN (IF mine THEN e.amount ELSE 0) + traded_by(Tail(events), user, taker)

\* the ledger after a submission with outcome o
Entered(side, bid, o) ==
  [what \in {"submitted", "traded", "cancelled"} |->
     [sd \in Sides |->
        [user \in Users |->
           ledger[what][sd][user] +
             CASE what = "submitted" ->
                    IF sd = side /\ user = bid.user_id THEN bid.amount ELSE 0
               [] what = "cancelled" ->
                    IF sd = side /\ user = bid.user_id THEN o.cancelled ELSE 0
               [] what = "traded" ->
                    IF sd = side
                      THEN IF user = bid.user_id
                             THEN traded_by(o.events, user, TRUE)
                             ELSE 0
                      ELSE traded_by(o.events, user, FALSE)]]]

LedgerSelling ==
  \E price \in Prices, amount \in Amounts, user_id \in Users, ty \in Types :
    \E checks \in Builds(ty) :
      \E o \in {process_selling(Book, Bid(price, amount, user_id), ty, checks)} :
        /\ steps < MaxSteps
        /\ Submit("Sell", Bid(price, amount, user_id), ty, o)
        /\ ledger' = Entered("Sell", Bid(price, amount, user_id), o)
        /\ steps' = steps + 1

LedgerBuying ==
  \E price \in Prices, amount \in Amounts, user_id \in Users, ty \in Types :
    \E checks \in Builds(ty) :
      \E o \in {process_buying(Book, Bid(price, amount, user_id), ty, checks)} :
        /\ steps < MaxSteps
        /\ Submit("Buy", Bid(price, amount, user_id), ty, o)
        /\ ledger' = Entered("Buy", Bid(price, amount, user_id), o)
        /\ steps' = steps + 1

LedgerNext == LedgerSelling \/ LedgerBuying

\* the submissions of Spec, with every one entered in the ledger
LedgerSpec == Init /\ [][LedgerNext]_vars

\* ---------------------------------------------------------------- vocabulary
\* Every bid a submission can carry, and what a submission makes of the
\* order book of the current state.
AllBids == {Bid(p, a, u) : p \in Prices, a \in Amounts, u \in Users}

After(side, bid, ty, checks) == process_raw_bid(Book, side, bid, ty, checks)

\* the pool an active bid of the given side is matched against, and the
\* pool its remainder rests in
Opposing(book, side) == IF side = "Sell" THEN book.buyers ELSE book.sellers

SameSide(book, side) == IF side = "Sell" THEN book.sellers ELSE book.buyers

\* the price of a resting bid is compatible with the limit of an active bid
PriceOk(side, active_bid, price) ==
  IF side = "Sell" THEN price >= active_bid.price ELSE price <= active_bid.price

\* a resting entry the active bid may trade with: compatible price, other user
Matchable(side, active_bid, e) ==
  /\ PriceOk(side, active_bid, e.bid.price)
  /\ e.bid.user_id # active_bid.user_id

RECURSIVE TotalAmount(_)
TotalAmount(entries) ==
  IF entries = <<>>
    THEN 0
    ELSE Head(entries).bid.amount + TotalAmount(Tail(entries))

\* the matchable non-self liquidity an active bid finds in the current state
Liquidity(side, active_bid) ==
  TotalAmount(SelectSeq(Opposing(Book, side).map,
                        LAMBDA e : Matchable(side, active_bid, e)))

RECURSIVE TradedUnits(_)
TradedUnits(events) ==
  IF events = <<>>
    THEN 0
    ELSE (IF Head(events).type = "TRADE" THEN Head(events).amount ELSE 0)
           + TradedUnits(Tail(events))

Count(events, type) == Len(SelectSeq(events, LAMBDA e : e.type = type))

\* units of a user resting in the pool of a side
Resting(side, user) ==
  TotalAmount(SelectSeq(SameSide(Book, side).map,
                        LAMBDA e : e.bid.user_id = user))

\* ---------------------------------------------------------------- C1
\* C1: conservation.  After any sequence of submissions, for every side and
\* user, the units submitted equal the units traded (the TRADE events) plus
\* the units resting in that side's pool plus the units dropped or killed.
C1_Conservation ==
  ~panicked =>
    \A side \in Sides, user \in Users :
      ledger["submitted"][side][user] =
        ledger["traded"][side][user] + Resting(side, user)
          + ledger["cancelled"][side][user]

\* ---------------------------------------------------------------- C2
\* C2: a FillOrKill submission that finds sufficient liquidity leaves the
\* opposing pool as a Limit submission of the same bid would, and rests
\* nothing on its own side.
C2_FillOrKillAsLimit ==
  \A side \in Sides, bid \in AllBids, checks \in BOOLEAN :
    LET fok == After(side, bid, "FillOrKill", checks)
        limit == After(side, bid, "Limit", FALSE)
    IN (Liquidity(side, bid) >= bid.amount /\ ~fok.panic /\ Count(fok.events, "DROP") = 0) =>
         /\ Opposing(fok, side) = Opposing(limit, side)
         /\ SameSide(fok, side) = SameSide(Book, side)

\* ---------------------------------------------------------------- C3
\* C3: FillOrKill atomicity.  The TRADE events of a FillOrKill submission
\* of size need add up to need or to zero.
C3_FillOrKillAtomic ==
  \A side \in Sides, bid \in AllBids, checks \in BOOLEAN :
    LET fok == After(side, bid, "FillOrKill", checks)
    IN TradedUnits(fok.events) \in {0, bid.amount}

\* ---------------------------------------------------------------- C4
\* C4: every match emits a trade event, also the partial one.  The TRADE
\* quantities of a submission add up to the units taken out of the
\* opposing pool.
C4_TradesAreUnitsTaken ==
  \A side \in Sides, bid \in AllBids, ty \in {"Limit", "ImmediateOrCancel"} :
    LET o == After(side, bid, ty, FALSE)
    IN TradedUnits(o.events) =
         TotalAmount(Opposing(Book, side).map) - TotalAmount(Opposing(o, side).map)

\* ---------------------------------------------------------------- C5
\* C5: self-trade freedom.  No TRADE event of any submission has the
\* active user equal to the user of the pool bid.
C5_NoSelfTrade ==
  \A side \in Sides, bid \in AllBids, ty \in Types :
    \A checks \in Builds(ty) :
      LET events == After(side, bid, ty, checks).events
      IN \A i \in DOMAIN events :
           events[i].type = "TRADE" => events[i].user # events[i].other

\* A submission trades although the best entry of the opposing pool is a
\* price-compatible bid of the same user.
C5_Witness ==
  \E side \in Sides, bid \in AllBids, ty \in Types :
    LET map == Opposing(Book, side).map
    IN /\ map # <<>>
       /\ map[1].bid.user_id = bid.user_id
       /\ PriceOk(side, bid, map[1].bid.price)
       /\ TradedUnits(After(side, bid, ty, FALSE).events) > 0

\* ---------------------------------------------------------------- C6
\* C6: a FillOrKill submission whose matchable non-self liquidity is less
\* than its size leaves both pools as they were (entries and counters),
\* rests nothing, and logs one DROP event and nothing else.
C6_KilledFillOrKill ==
  \A side \in Sides, bid \in AllBids, checks \in BOOLEAN :
    Liquidity(side, bid) < bid.amount =>
      LET o == After(side, bid, "FillOrKill", checks)
      IN /\ o.sellers = sellers
         /\ o.buyers = buyers
         /\ ~o.rested
         /\ ~o.panic
         /\ o.events = <<DropEvent(side, bid)>>

\* A FillOrKill submission is killed although part of it could be matched.
C6_Witness ==
  \E side \in Sides, bid \in AllBids :
    /\ 0 < Liquidity(side, bid)
    /\ Liquidity(side, bid) < bid.amount
    /\ Count(After(side, bid, "FillOrKill", FALSE).events, "DROP") = 1

\* ---------------------------------------------------------------- C7
\* the entries of a pool in iteration order: prices never get worse and
\* equal prices go by strictly increasing id
InPriority(kind, map) ==
  \A i, j \in DOMAIN map :
    i < j =>
      /\ IF kind = "Buy" THEN map[i].bid.price >= map[j].bid.price
                         ELSE map[i].bid.price <= map[j].bid.price
      /\ map[i].bid.price = map[j].bid.price => map[i].key.id < map[j].key.id

\* C7: price-time priority.  The buy pool iterates by non-increasing price,
\* the sell pool by non-decreasing price, both by strictly increasing seq
\* within a price.
C7_PriceTimePriority ==
  /\ InPriority("Buy", buyers.map)
  /\ InPriority("Sell", sellers.map)

\* In both pools a later bid of better price stands before an earlier one.
C7_Witness ==
  /\ Len(buyers.map) = 2
  /\ buyers.map[1].key.id > buyers.map[2].key.id
  /\ Len(sellers.map) = 2
  /\ sellers.map[1].key.id > sellers.map[2].key.id

\* ---------------------------------------------------------------- C8
\* C8: price compatibility.  The price of every TRADE event is compatible
\* with the limit of the active bid, and the matching range of an active
\* bid holds exactly the entries of the opposing pool with a compatible
\* price, those at the limit price included.
C8_PriceCompatible ==
  \A side \in Sides, bid \in AllBids :
    /\ \A ty \in Types :
         \A checks \in Builds(ty) :
           LET events == After(side, bid, ty, checks).events
           IN \A i \in DOMAIN events :
                events[i].type = "TRADE" => PriceOk(side, bid, events[i].price)
    /\ range_mut(Opposite(side), Opposing(Book, side).map, what_matches(bid)) =
         SelectSeq(Opposing(Book, side).map,
                   LAMBDA e : PriceOk(side, bid, e.bid.price))

\* A submission trades at exactly its limit price while the opposing pool
\* also holds an entry outside its matching range.
C8_Witness ==
  \E side \in Sides, bid \in AllBids, ty \in Types :
    LET events == After(side, bid, ty, FALSE).events
        map == Opposing(Book, side).map
    IN /\ \E i \in DOMAIN events :
            events[i].type = "TRADE" /\ events[i].price = bid.price
       /\ \E i \in DOMAIN map : ~PriceOk(side, bid, map[i].bid.price)

\* ---------------------------------------------------------------- C9
\* C9: only Limit submissions rest.  Every entry of either pool comes from
\* a Limit submission, and a FillOrKill or ImmediateOrCancel submission
\* leaves the pool of its own side as it was, whatever remains of it.
C9_OnlyLimitRests ==
  /\ \A i \in DOMAIN sellers.map : sellers.map[i].ty = "Limit"
  /\ \A i \in DOMAIN buyers.map : buyers.map[i].ty = "Limit"
  /\ \A side \in Sides, bid \in AllBids :
       \A ty \in {"FillOrKill", "ImmediateOrCancel"}, checks \in BOOLEAN :
         LET o == After(side, bid, ty, checks)
         IN ~o.rested /\ SameSide(o, side) = SameSide(Book, side)

\* An ImmediateOrCancel submission is matched in part and the rest of it
\* is cancelled.
C9_Witness ==
  \E side \in Sides, bid \in AllBids :
    LET o == After(side, bid, "ImmediateOrCancel", FALSE)
    IN /\ TradedUnits(o.events) > 0
       /\ o.cancelled > 0
       /\ o.cancelled < bid.amount

\* ---------------------------------------------------------------- C10
\* seq without its k-th element
Without(seq, k) == SubSeq(seq, 1, k - 1) \o SubSeq(seq, k + 1, Len(seq))

\* C10: Limit remainder.  With L the matchable non-self liquidity of a
\* Limit submission of size n: the opposing pool loses exactly its
\* matchable entries when L < n, and then the pool of the submission's side
\* gains exactly one entry, of the submission's price and user and of size
\* n - L; when L >= n the pool of the submission's side is left as it was.
C10_LimitRemainder ==
  \A side \in Sides, bid \in AllBids :
    LET o == After(side, bid, "Limit", FALSE)
        L == Liquidity(side, bid)
        pre == SameSide(Book, side).map
        post == SameSide(o, side).map
    IN IF L < bid.amount
         THEN /\ Opposing(o, side).map =
                   SelectSeq(Opposing(Book, side).map,
                             LAMBDA e : ~Matchable(side, bid, e))
              /\ \E k \in DOMAIN post :
                   /\ post[k].bid = Bid(bid.price, bid.amount - L, bid.user_id)
                   /\ Without(post, k) = pre
         ELSE post = pre

\* A Limit submission takes all the liquidity there is and rests what
\* remains of it.
C10_Witness ==
  \E side \in Sides, bid \in AllBids :
    /\ 0 < Liquidity(side, bid)
    /\ Liquidity(side, bid) < bid.amount
    /\ After(side, bid, "Limit", FALSE).rested

\* ---------------------------------------------------------------- C11
\* C11: a zero-size submission of any processing type logs no event,
\* leaves both pools as they were and rests nothing.
C11_ZeroSizeNoOp ==
  \A side \in Sides, price \in Prices, user_id \in Users, ty \in Types :
    \A checks \in Builds(ty) :
      LET o == After(side, Bid(price, 0, user_id), ty, checks)
      IN /\ o.events = <<>>
         /\ o.sellers = sellers
         /\ o.buyers = buyers
         /\ ~o.rested

\* ---------------------------------------------------------------- C12
\* the bids of a map, in iteration order
BidsOf(map) == [i \in DOMAIN map |-> map[i].bid]

\* the entry a push has added to the map post
Pushed(post, id) == \E i \in DOMAIN post : post[i].key.id = id

\* pushing bid to pool numbers it above every id of the pool and adds it
FreshPush(kind, pool, bid) ==
  LET next == push(kind, pool, bid, "Limit")
  IN /\ \A i \in DOMAIN pool.map : pool.map[i].key.id < next.count
     /\ Pushed(next.map, next.count)
     /\ Len(next.map) = Len(pool.map) + 1

\* C12: monotonic seq.  The ids of a pool are distinct and none exceeds its
\* counter; a submission that rests numbers its remainder one above the
\* counter of its side's pool, so above every id ever given there, removed
\* ones included; the counter of the other pool never moves with it, and no
\* counter ever decreases.  The same holds for a push to a pool built by
\* From from the bids of a pool.
C12_MonotonicSeq ==
  /\ \A pool \in {sellers, buyers} :
       /\ \A i \in DOMAIN pool.map : pool.map[i].key.id \in 1..pool.count
       /\ \A i, j \in DOMAIN pool.map :
            pool.map[i].key.id = pool.map[j].key.id => i = j
  /\ \A side \in Sides, bid \in AllBids, ty \in Types :
       \A checks \in Builds(ty) :
         LET o == After(side, bid, ty, checks)
             pre == SameSide(Book, side)
             post == SameSide(o, side)
         IN /\ Opposing(o, side).count = Opposing(Book, side).count
            /\ IF o.rested
                 THEN /\ post.count = pre.count + 1
                      /\ Pushed(post.map, post.count)
                      /\ Len(post.map) = Len(pre.map) + 1
                 ELSE post.count = pre.count
  /\ \A kind \in Sides, bid \in AllBids :
       /\ FreshPush(kind, from(kind, BidsOf(sellers.map)), bid)
       /\ FreshPush(kind, from(kind, BidsOf(buyers.map)), bid)

\* A submission rests in a pool that bids have been removed from, while
\* the other pool has had pushes too.
C12_Witness ==
  \E side \in Sides, bid \in AllBids :
    /\ After(side, bid, "Limit", FALSE).rested
    /\ Len(SameSide(Book, side).map) < SameSide(Book, side).count
    /\ Opposing(Book, side).count > 0

\* ---------------------------------------------------------------- C13
\* C13: ImmediateOrCancel is Limit without the remainder.  It logs the
\* TRADE events and leaves the opposing pool as a Limit submission of the
\* same bid does, and leaves the pool of its own side as it was.
C13_ImmediateOrCancelAsLimit ==
  \A side \in Sides, bid \in AllBids :
    LET ioc == After(side, bid, "ImmediateOrCancel", FALSE)
        limit == After(side, bid, "Limit", FALSE)
    IN /\ SelectSeq(ioc.events, LAMBDA e : e.type = "TRADE") =
            SelectSeq(limit.events, LAMBDA e : e.type = "TRADE")
       /\ Opposing(ioc, side) = Opposing(limit, side)
       /\ SameSide(ioc, side) = SameSide(Book, side)
       /\ ~ioc.rested

\* An ImmediateOrCancel submission trades, and the Limit submission of the
\* same bid would rest a remainder.
C13_Witness ==
  \E side \in Sides, bid \in AllBids :
    /\ TradedUnits(After(side, bid, "ImmediateOrCancel", FALSE).events) > 0
    /\ After(side, bid, "Limit", FALSE).rested

\* ---------------------------------------------------------------- C14
\* the units a submission with outcome o has taken off the opposing pool
Taken(side, o) ==
  TotalAmount(Opposing(Book, side).map) - TotalAmount(Opposing(o, side).map)

\* C14: ADD and DROP events.  A submission logs one ADD event, for the
\* remainder, when it rests a remainder, and none otherwise; only Limit
\* submissions short of liquidity rest.  A Limit submission logs no DROP;
\* an ImmediateOrCancel submission logs one DROP when it filled no unit and
\* none (and no ADD) when it filled one or more; a FillOrKill submission
\* logs one DROP when it is killed (its size is not zero and it neither
\* trades nor touches the opposing pool) and none otherwise.
C14_AddAndDrop ==
  \A side \in Sides, bid \in AllBids, ty \in Types :
    \A checks \in Builds(ty) :
      LET o == After(side, bid, ty, checks)
          rest == Bid(bid.price, bid.amount - Liquidity(side, bid), bid.user_id)
          killed == /\ ~o.panic
                    /\ bid.amount > 0
                    /\ Count(o.events, "TRADE") = 0
                    /\ Opposing(o, side) = Opposing(Book, side)
      IN /\ o.rested <=> (ty = "Limit" /\ Liquidity(side, bid) < bid.amount)
         /\ IF o.rested
              THEN /\ Count(o.events, "ADD") = 1
                   /\ o.events[Len(o.events)] = AddEvent(side, rest)
              ELSE Count(o.events, "ADD") = 0
         /\ Count(o.events, "DROP") =
              CASE ty = "Limit" -> 0
                [] ty = "ImmediateOrCancel" ->
                     IF Taken(side, o) = 0 THEN 1 ELSE 0
                [] ty = "FillOrKill" -> IF killed THEN 1 ELSE 0

\* In one state an ImmediateOrCancel submission fills part of its size and
\* logs neither ADD nor DROP, and the FillOrKill submission of the same bid
\* is killed.
C14_Witness ==
  \E side \in Sides, bid \in AllBids :
    LET ioc == After(side, bid, "ImmediateOrCancel", FALSE)
    IN /\ Taken(side, ioc) > 0
       /\ ioc.cancelled > 0
       /\ Count(ioc.events, "DROP") = 0
       /\ Count(ioc.events, "ADD") = 0
       /\ Count(After(side, bid, "FillOrKill", FALSE).events, "DROP") = 1

\* ---------------------------------------------------------------- C15
\* entry a has strictly better priority than entry b for an active bid of
\* the given side: better price, or the same price and a smaller seq
Better(side, a, b) ==
  \/ IF side = "Sell" THEN a.bid.price > b.bid.price
                      ELSE a.bid.price < b.bid.price
  \/ a.bid.price = b.bid.price /\ a.key.id < b.key.id

\* the number of matchable entries of the opposing pool that have strictly
\* better priority than e
Rank(side, active_bid, e) ==
  LET map == Opposing(Book, side).map
  IN Cardinality({i \in DOMAIN map :
                    /\ Matchable(side, active_bid, map[i])
                    /\ Better(side, map[i], e)})

\* e is no longer in the map post as it was
Touched(post, e) == \A i \in DOMAIN post : post[i] # e

C16_NoPanic ==
  \A side \in Sides, bid \in AllBids, ty \in Types :
    \A checks \in Builds(ty) :
      ~After(side, bid, ty, checks).panic

\* ---------------------------------------------------------------- C17
\* every bid of the map has at least one item
AllPositive(map) == \A i \in DOMAIN map : map[i].bid.amount >= 1

OwnedBy(map, user) == SelectSeq(map, LAMBDA e : e.bid.user_id = user)

\* the entries of a map that a bid of the given side would reach before e
Ahead(side, active_bid, map, e) ==
  SelectSeq(map, LAMBDA x : Matchable(side, active_bid, x) /\ Better(side, x, e))

\* C18: the bids of the active user are skipped and stay.  A submission of
\* user u leaves u's entries of the opposing pool as they were; a
\* FillOrKill of u is killed or filled by the liquidity of the other users
\* alone (where the sum of the sizes cannot overflow); and after the
\* submission a bid of another user, at the price of an entry of u and
\* larger than what lies ahead of that entry, has that entry among its
\* candidates.
C18_OwnBidsStay ==
  \A side \in Sides, bid \in AllBids, ty \in Types :
    \A checks \in Builds(ty) :
      LET o == After(side, bid, ty, checks)
          pre == Opposing(Book, side)
          post == Opposing(o, side)
          own == OwnedBy(post.map, bid.user_id)
      IN /\ OwnedBy(pre.map, bid.user_id) = own
         /\ (ty = "FillOrKill" /\ bid.amount > 0
               /\ TotalAmount(pre.map) <= MaxAmount) =>
              /\ ~o.panic
              /\ Liquidity(side, bid) < bid.amount =>
                   /\ o.events = <<DropEvent(side, bid)>>
                   /\ post = pre
              /\ Liquidity(side, bid) >= bid.amount =>
                   /\ Count(o.events, "DROP") = 0
                   /\ TotalAmount(OwnedBy(pre.map, bid.user_id)) + bid.amount
                        <= TotalAmount(pre.map)
         /\ \A i \in DOMAIN own, user_id \in Users \ {bid.user_id},
              amount \in Amounts :
              LET other == Bid(own[i].bid.price, amount, user_id)
                  got == get_suitable(Opposite(side), post, other)
              IN amount > TotalAmount(Ahead(side, other, post.map, own[i])) =>
                   \E j \in DOMAIN got : got[j] = own[i]

\* A FillOrKill bid finds a bid of its own user and a smaller bid of
\* another user, together large enough: it is killed, its own bid stays,
\* and a bid of the other user then has it among its candidates.
C18_Witness ==
  \E side \in Sides, bid \in AllBids :
    LET o == After(side, bid, "FillOrKill", FALSE)
        pre == Opposing(Book, side)
        own == OwnedBy(pre.map, bid.user_id)
    IN /\ Len(own) = 1
       /\ Len(pre.map) = 2
       /\ PriceOk(side, bid, own[1].bid.price)
       /\ Liquidity(side, bid) > 0
       /\ Liquidity(side, bid) < bid.amount
       /\ bid.amount <= TotalAmount(pre.map)
       /\ o.events = <<DropEvent(side, bid)>>
       /\ OwnedBy(Opposing(o, side).map, bid.user_id) = own
       /\ \E user_id \in Users \ {bid.user_id} :
            LET other == Bid(own[1].bid.price, MaxAmount, user_id)
                got == get_suitable(Opposite(side), Opposing(o, side), other)
            IN \E j \in DOMAIN got : got[j] = own[1]

\* ---------------------------------------------------------------- C19
\* e, an entry of the map pre, is in the map post with the same key, price,
\* user and origin, and with no more items than before
Kept(post, e) ==
  \E j \in DOMAIN post :
    /\ post[j].key = e.key
    /\ post[j].ty = e.ty
    /\ post[j].bid.price = e.bid.price
    /\ post[j].bid.user_id = e.bid.user_id
    /\ post[j].bid.amount <= e.bid.amount

\* C19: a resting bid changes only by being matched.  A submission adds
\* nothing to the opposing pool; an entry of the opposing pool keeps its
\* key, price and user and never grows, and it shrinks or leaves only when
\* it belongs to another user and its price is compatible with the
\* submission.  The entries of the submission's own side all stay as they
\* were, in their order, and at most one entry is added to them.
C19_ChangedOnlyByMatch ==
  \A side \in Sides, bid \in AllBids, ty \in Types :
    \A checks \in Builds(ty) :
      LET o == After(side, bid, ty, checks)
          pre == Opposing(Book, side).map
          post == Opposing(o, side).map
          mine == SameSide(Book, side).map
          mine_post == SameSide(o, side).map
      IN /\ \A j \in DOMAIN post : \E i \in DOMAIN pre : post[j].key = pre[i].key
         /\ \A i \in DOMAIN pre :
              /\ Touched(post, pre[i]) => Matchable(side, bid, pre[i])
              /\ Kept(post, pre[i]) \/ \A j \in DOMAIN post : post[j].key # pre[i].key
         /\ SelectSeq(mine_post,
                      LAMBDA x : \E i \in DOMAIN mine : mine[i] = x) = mine
         /\ Len(mine_post) <= Len(mine) + 1

\* A Limit bid finds on the other side a bid of its own user and a smaller
\* bid of another user, and on its own side an older bid: it takes the
\* other user's bid, leaves its own, and rests next to the older bid.
C19_Witness ==
  \E side \in Sides, bid \in AllBids :
    LET o == After(side, bid, "Limit", FALSE)
        pre == Opposing(Book, side).map
        post == Opposing(o, side).map
        mine == SameSide(Book, side).map
    IN /\ Len(pre) = 2
       /\ Len(mine) = 1
       /\ Len(post) = 1
       /\ post[1].bid.user_id = bid.user_id
       /\ PriceOk(side, bid, post[1].bid.price)
       /\ Count(o.events, "TRADE") = 1
       /\ o.rested
       /\ Len(SameSide(o, side).map) = 2

\* ---------------------------------------------------------------- C20
\* C20: the candidates of an active bid of size n.  The i-th candidate is
\* an entry of the opposing pool, of another user and of a compatible
\* price, with exactly i - 1 such entries of better priority; the
\* candidates are all of these entries when their total is below n, and
\* otherwise their total reaches n while the total without the last
\* candidate does not.  A bid of size 0 has no candidates.
C20_ShortestPrefix ==
  \A side \in Sides, bid \in AllBids :
    LET pool == Opposing(Book, side)
        got == get_suitable(Opposite(side), pool, bid)
        all == SelectSeq(pool.map, LAMBDA e : Matchable(side, bid, e))
    IN /\ \A i \in DOMAIN got :
            /\ \E j \in DOMAIN pool.map : pool.map[j] = got[i]
            /\ Matchable(side, bid, got[i])
            /\ Rank(side, bid, got[i]) = i - 1
       /\ IF TotalAmount(all) < bid.amount
            THEN Len(got) = Len(all)
            ELSE /\ TotalAmount(got) >= bid.amount
                 /\ got # <<>> =>
                      TotalAmount(SubSeq(got, 1, Len(got) - 1)) < bid.amount
       /\ bid.amount = 0 => got = <<>>

\* Two bids of another user are within the price of the active bid, and
\* the first is already large enough: it is the only candidate.
C20_Witness ==
  \E side \in Sides, bid \in AllBids :
    LET pool == Opposing(Book, side)
        got == get_suitable(Opposite(side), pool, bid)
    IN /\ Len(pool.map) = 2
       /\ \A i \in DOMAIN pool.map : Matchable(side, bid, pool.map[i])
       /\ bid.amount > 0
       /\ bid.amount < pool.map[1].bid.amount
       /\ got = <<pool.map[1]>>

\* ---------------------------------------------------------------- C21
\* C21: an empty opposing pool.  No submission trades and the opposing pool
\* stays empty.  A Limit bid rests in full: for a size >= 1 its own side
\* gains one entry equal to the bid, under the next id, and the only event
\* is the ADD of the whole bid; for size 0 there is nothing to rest.  A
\* FillOrKill bid logs one DROP of the whole bid and rests nothing, and
\* logs nothing when its size is 0.  An ImmediateOrCancel bid logs one
\* DROP of the whole bid and rests nothing.
C21_EmptyOpposingPool ==
  \A side \in Sides, bid \in AllBids, ty \in Types :
    \A checks \in Builds(ty) :
      Opposing(Book, side).map = <<>> =>
        LET o == After(side, bid, ty, checks)
            mine == SameSide(Book, side)
            mine_post == SameSide(o, side)
        IN /\ ~o.panic
           /\ Opposing(o, side) = Opposing(Book, side)
           /\ Count(o.events, "TRADE") = 0
           /\ ty = "Limit" =>
                IF bid.amount >= 1
                  THEN /\ o.rested
                       /\ o.events = <<AddEvent(side, bid)>>
                       /\ mine_post = push(side, mine, bid, "Limit")
                       /\ Pushed(mine_post.map, mine.count + 1)
                       /\ TotalAmount(mine_post.map)
                            = TotalAmount(mine.map) + bid.amount
                  ELSE /\ o.events = <<>>
                       /\ mine_post = mine
           /\ ty = "FillOrKill" =>
                /\ ~o.rested
                /\ mine_post = mine
                /\ o.events = IF bid.amount = 0 THEN <<>>
                                                ELSE <<DropEvent(side, bid)>>
           /\ ty = "ImmediateOrCancel" =>
                /\ ~o.rested
                /\ mine_post = mine
                /\ o.events = <<DropEvent(side, bid)>>

\* The opposing pool is empty while the bid's own side already holds a
\* bid: a Limit bid of size >= 1 rests next to it, and a FillOrKill and an
\* ImmediateOrCancel bid of the same size are dropped.
C21_Witness ==
  \E side \in Sides, bid \in AllBids :
    /\ Opposing(Book, side).map = <<>>
    /\ Len(SameSide(Book, side).map) = 1
    /\ bid.amount >= 1
    /\ After(side, bid, "Limit", FALSE).rested
    /\ Len(SameSide(After(side, bid, "Limit", FALSE), side).map) = 2
    /\ After(side, bid, "FillOrKill", TRUE).events = <<DropEvent(side, bid)>>
    /\ After(side, bid, "ImmediateOrCancel", FALSE).events
         = <<DropEvent(side, bid)>>

\* ---------------------------------------------------------------- C22
\* C22: the two passes of FillOrKill agree.  Whenever the sum of the first
\* walk, as the build computes it, is at least the size of the bid, the
\* match over the second walk processes exactly that size; so a build
\* with checks aborts a FillOrKill only on the overflow of the sum, never
\* on the assertion after the match.
C22_PassesAgree ==
  \A side \in Sides, bid \in AllBids :
    LET kind == Opposite(side)
        pool == Opposing(Book, side)
        total == sum(get_suitable(kind, pool, bid))
        r == process_items(get_suitable(kind, pool, bid), bid, side)
    IN /\ total % (MaxAmount + 1) >= bid.amount =>
            r.items_processed = bid.amount
       /\ After(side, bid, "FillOrKill", TRUE).panic => total > MaxAmount

\* A FillOrKill bid in a build with checks takes one resting bid whole and
\* a part of the next, and the call returns.
C22_Witness ==
  \E side \in Sides, bid \in AllBids :
    LET kind == Opposite(side)
        pool == Opposing(Book, side)
        r == process_items(get_suitable(kind, pool, bid), bid, side)
        o == After(side, bid, "FillOrKill", TRUE)
    IN /\ ~o.panic
       /\ Len(r.keys_to_drop) = 1
       /\ Len(r.writes) = 1
       /\ r.items_processed = bid.amount
       /\ Count(o.events, "TRADE") = 1
       /\ Count(o.events, "DROP") = 0

\* ---------------------------------------------------------------- C23
\* the bids the scan of get_suitable is fed with
Filtered(side, bid) ==
  SelectSeq(range_mut(Opposite(side), Opposing(Book, side).map,
                      what_matches(bid)),
            LAMBDA e : e.bid.user_id # bid.user_id)

\* the accumulator of process_items after the first k candidates
AccAfter(side, bid, k) ==
  for_each(SubSeq(get_suitable(Opposite(side), Opposing(Book, side), bid),
                  1, k),
           [items_left |-> bid.amount, keys_to_drop |-> <<>>,
            events |-> <<>>, writes |-> <<>>],
           bid, side)

\* C23: no subtraction goes below 0.  For every bid in every reachable
\* state: `left` of the scan and items_left of process_items stay between
\* 0 and the size of the bid after every step (the scan yielding a bid
\* exactly when `left` is not 0 before it), an amount written to a
\* pool bid is between 1 and the amount it replaces, items_processed is
\* between 0 and the size of the bid, and the remainder of a Limit bid is
\* the size less items_processed and at least 1.
C23_NoUnderflow ==
  \A side \in Sides, bid \in AllBids :
    LET kind == Opposite(side)
        pool == Opposing(Book, side)
        got == get_suitable(kind, pool, bid)
        r == process_items(got, bid, side)
        lim == process_limit(kind, pool, bid)
    IN /\ \A k \in 0..Len(Filtered(side, bid)) :
            left_after(SubSeq(Filtered(side, bid), 1, k), bid.amount)
              \in 0..bid.amount
       /\ Len(got) =
            Cardinality({k \in 1..Len(Filtered(side, bid)) :
                           left_after(SubSeq(Filtered(side, bid), 1, k - 1),
                                      bid.amount) # 0})
       /\ \A k \in 0..Len(got) :
            AccAfter(side, bid, k).items_left \in 0..bid.amount
       /\ \A j \in DOMAIN r.writes :
            \E i \in DOMAIN pool.map :
              /\ pool.map[i].key = r.writes[j].key
              /\ r.writes[j].amount \in 1..pool.map[i].bid.amount
       /\ r.items_processed \in 0..bid.amount
       /\ lim.some =>
            /\ lim.bid.amount = bid.amount - r.items_processed
            /\ lim.bid.amount \in 1..bid.amount

\* In one state a bid takes one resting bid whole and a part of the next,
\* and a Limit bid of a lower limit takes the first whole and rests with
\* what is left of it: every subtraction of the walk, of process_items and
\* of the Limit branch is made.
C23_Witness ==
  \E side \in Sides, bid \in AllBids, low \in AllBids :
    LET kind == Opposite(side)
        pool == Opposing(Book, side)
        r == process_items(get_suitable(kind, pool, bid), bid, side)
        lim == process_limit(kind, pool, low)
    IN /\ Len(r.keys_to_drop) = 1
       /\ Len(r.writes) = 1
       /\ left_after(Filtered(side, bid), bid.amount) = 0
       /\ lim.some
       /\ lim.bid.amount < low.amount

\* ---------------------------------------------------------------- C24
\* C24: the decision of FillOrKill is exact.  In every build the call
\* returns, and the bid is killed (one DROP, the opposing pool as it was)
\* exactly when the true sum of the sizes of the matchable bids of other
\* users is below its size; otherwise no DROP is logged.
C24_ExactDecision ==
  \A side \in Sides, bid \in AllBids, checks \in BOOLEAN :
    LET o == After(side, bid, "FillOrKill", checks)
    IN /\ ~o.panic
       /\ Count(o.events, "DROP") =
            (IF Liquidity(side, bid) < bid.amount THEN 1 ELSE 0)

\* ---------------------------------------------------------------- C25
\* C25: the book is not crossed between users.  In every reachable state a
\* resting buy and a resting sell with buy price >= sell price belong to
\* the same user.
C25_NotCrossed ==
  \A i \in DOMAIN buyers.map, j \in DOMAIN sellers.map :
    buyers.map[i].bid.price >= sellers.map[j].bid.price =>
      buyers.map[i].bid.user_id = sellers.map[j].bid.user_id

\* A buy and a sell of one user rest at crossing prices, next to a bid of
\* another user that crosses nothing.
C25_Witness ==
  /\ \E i \in DOMAIN buyers.map, j \in DOMAIN sellers.map :
       /\ buyers.map[i].bid.price >= sellers.map[j].bid.price
       /\ buyers.map[i].bid.user_id = sellers.map[j].bid.user_id
  /\ \E i \in DOMAIN buyers.map, j \in DOMAIN sellers.map :
       /\ buyers.map[i].bid.user_id # sellers.map[j].bid.user_id
       /\ buyers.map[i].bid.price < sellers.map[j].bid.price
====
